---- MODULE Spec2Model ----
(***************************************************************************)
(* State-machine model of the sbs2024 game screens:                        *)
(*   ShitState (the simulation screen), StoreSubState (the store overlay)  *)
(*   and EndState (the terminal screen), with the persisted save records.  *)
(*                                                                         *)
(* Reals (f32) are fixed-point integers: the value x is held as x * Scale. *)
(* A product a*b of two fixed-point values is Mul(a, b).  With the rates   *)
(* and time steps used here the products of effort, oxygen and cooldown    *)
(* are exact on this grid.                                                 *)
(*                                                                         *)
(* The specifications share every action:                                  *)
(*   Spec     all screens, under IdleConfig: progress is driven by gravity, *)
(*            which keeps the product of simulation, store and save state  *)
(*            small.                                                       *)
(*   SpecSim  the simulation screen under PlayConfig, where effort, oxygen *)
(*            and progress interact; the store is opened but not used.     *)
(*   SpecOxy  as SpecSim, under PlayConfig and under DrainConfig.           *)
(*   SpecOverlay  the simulation screen with the store in use, under        *)
(*            IdleConfig and under PinnedConfig.                            *)
(*   SpecLoad Config::load applied to the documents of CfgFiles.            *)
(*   SpecBreath  the simulation screen with short frames, under            *)
(*            BreathConfig and SurgeConfig, where oxygen runs out.         *)
(*   SpecFull as Spec, from a data store with the score at the top of the  *)
(*            s16 range.                                                   *)
(*   SpecRich the simulation screen with the store in use, from a data     *)
(*            store that affords every item before the first prestige.     *)
(*   SpecSimFair, SpecBreathFair  SpecSim and SpecBreath with weak         *)
(*            fairness of the frames that take time.                       *)
(***************************************************************************)
EXTENDS Integers, Sequences, FiniteSets, TLC

\* ------------------------------------------------------------------ bounds
Scale == 10000

\* completions are not taken once the score has reached MaxScore, except at
\* the top of the s16 range
MaxScore == 3
\* terminal transitions are not taken once the persisted prestige is MaxPrestige
MaxPrestige == 2

\* the frame times (seconds * Scale) a tick is called with
Deltas == {0, 25000}
\* short frames
BreathDeltas == {2500}

Mul(a, b) == (a * b) \div Scale
Max(a, b) == IF a >= b THEN a ELSE b
Min(a, b) == IF a <= b THEN a ELSE b

\* s16 arithmetic (two's complement wrap)
Wrap16(n) == ((n + 32768) % 65536) - 32768
\* the largest s16
S16Max == 2^15 - 1

\* ------------------------------------------------------- ShitState constants
cEffortDecay == 3000
cEffortIncrement == 1000
cMaxEffort == 10000
cProgressScalar == 5000
cCooldownValue == 30000
cFadeInTime == 10000
cStoreIconX == 7000
cStoreIconY == 750
cStoreIconW == 500
cStoreIconH == 500
cBrickFallInactive == 0 - 10000

\* ------------------------------------------------ StoreSubState constants
cNoPurchaseFloat == 0 - 1
cInsufficientFundsFloat == 0 - 2
cAlreadyOwnedFloat == 0 - 3
cPurchaseFloatLifetime == 50000

\* ---------------------------------------------------- EndState constants
cCountdownStart == 11000

\* ------------------------------------------------------------------ Config
\* Configurations as Config::load reads them from cfg.json (the file is data;
\* these are two well-formed ones).
\* PlayConfig: effort has to lift progress to the gravity threshold.
PlayConfig ==
  [ lube    |-> [base |-> 500, upgrade |-> 250, maxTier |-> 2],
    gravity |-> [base |-> 500, upgrade |-> 500, threshold |-> 5000, maxTier |-> 2],
    oxy     |-> [regen |-> 2000, drain |-> 8000, min |-> 2000],
    brick   |-> [fallSpeed |-> 2000],
    water   |-> [minY |-> 6000, maxY |-> 8000] ]

\* IdleConfig: gravity acts from progress 0 and oxy.min is above full oxygen,
\* so no click is accepted as effort and a cycle completes by gravity alone.
IdleConfig ==
  [ lube    |-> [base |-> 1000, upgrade |-> 500, maxTier |-> 2],
    gravity |-> [base |-> 2000, upgrade |-> 500, threshold |-> 0, maxTier |-> 2],
    oxy     |-> [regen |-> 2000, drain |-> 8000, min |-> 20000],
    brick   |-> [fallSpeed |-> 2000],
    water   |-> [minY |-> 6000, maxY |-> 8000] ]

\* DrainConfig: PlayConfig with a drain rate high enough for the effort that is
\* left after one tick's decay to outweigh the regeneration.
DrainConfig ==
  [ lube    |-> [base |-> 500, upgrade |-> 250, maxTier |-> 2],
    gravity |-> [base |-> 500, upgrade |-> 500, threshold |-> 5000, maxTier |-> 2],
    oxy     |-> [regen |-> 2000, drain |-> 12000, min |-> 2000],
    brick   |-> [fallSpeed |-> 2000],
    water   |-> [minY |-> 6000, maxY |-> 8000] ]

\* PinnedConfig: PlayConfig with a decay that takes back within the tick what
\* effort adds to progress, so that no cycle completes.
PinnedConfig ==
  [ lube    |-> [base |-> 2000, upgrade |-> 250, maxTier |-> 2],
    gravity |-> [base |-> 500, upgrade |-> 500, threshold |-> 5000, maxTier |-> 2],
    oxy     |-> [regen |-> 2000, drain |-> 8000, min |-> 2000],
    brick   |-> [fallSpeed |-> 2000],
    water   |-> [minY |-> 6000, maxY |-> 8000] ]

\* BreathConfig: progress pinned by the decay, and a drain rate that empties a
\* full tank within one short frame at high effort and keeps it empty while the
\* effort that is left outweighs the regeneration.
BreathConfig ==
  [ lube    |-> [base |-> 6000, upgrade |-> 250, maxTier |-> 2],
    gravity |-> [base |-> 500, upgrade |-> 500, threshold |-> 5000, maxTier |-> 2],
    oxy     |-> [regen |-> 2000, drain |-> 44000, min |-> 2000],
    brick   |-> [fallSpeed |-> 2000],
    water   |-> [minY |-> 6000, maxY |-> 8000] ]

\* SurgeConfig: BreathConfig with rates at which one short frame regenerates
\* more than a full tank and one frame's drain can take it all.
SurgeConfig ==
  [ lube    |-> [base |-> 6000, upgrade |-> 250, maxTier |-> 2],
    gravity |-> [base |-> 500, upgrade |-> 500, threshold |-> 5000, maxTier |-> 2],
    oxy     |-> [regen |-> 170000, drain |-> 200000, min |-> 2000],
    brick   |-> [fallSpeed |-> 2000],
    water   |-> [minY |-> 6000, maxY |-> 8000] ]

\* StoreItem::kind
Lube == "Lube"
Gravity == "Gravity"
Oxy == "Oxy"
EndGame == "EndGame"

\* mConfig.store, the catalog in file order.  loadStore gives every entry one
\* of the kinds Lube, Gravity and EndGame; it does not assign StoreItem::prestige,
\* which hasItem and getHoveredItem read: the second entry stands for an item
\* whose prestige member is 1.
ConfigStore ==
  << [name |-> "lube1",    price |-> 1,  kind |-> Lube,    argument |-> 1, prestige |-> 0],
     [name |-> "gravity2", price |-> 1,  kind |-> Gravity, argument |-> 2, prestige |-> 1],
     [name |-> "lube2",    price |-> 30, kind |-> Lube,    argument |-> 2, prestige |-> 0],
     [name |-> "gravity1", price |-> 30, kind |-> Gravity, argument |-> 1, prestige |-> 0],
     [name |-> "end",      price |-> 2,  kind |-> EndGame, argument |-> 0, prestige |-> 0] >>

\* ---------------------------------------------------------------- cfg.json
\* A JSON value as the loader sees it: its type and, for a number, its value
\* (fixed point).  type "absent" stands for a key the object does not hold.
JAbsent == [type |-> "absent", num |-> 0]
JString == [type |-> "string", num |-> 0]
JBool == [type |-> "bool", num |-> 0]
JNumber(n) == [type |-> "number", num |-> n]

\* static_cast<f32>, static_cast<s16> of a JSON number (truncation toward zero)
ToF32(n) == n
ToS16(n) == IF n >= 0 THEN n \div Scale ELSE 0 - ((0 - n) \div Scale)

\* Config{} and StoreItem{} before anything is loaded
ConfigUnset ==
  [ lube    |-> [base |-> 0, upgrade |-> 0, maxTier |-> 0],
    gravity |-> [base |-> 0, upgrade |-> 0, threshold |-> 0, maxTier |-> 0],
    oxy     |-> [regen |-> 0, drain |-> 0, min |-> 0],
    brick   |-> [fallSpeed |-> 0],
    water   |-> [minY |-> 6000, maxY |-> 8000],
    store   |-> << >> ]
None == "None"
StoreItemUnset == [price |-> 0, icon |-> 0, kind |-> None, argument |-> 0]

\* the part of a Config the simulation reads (the catalog is ConfigStore)
ConfigOf(out) ==
  [ lube |-> out.lube, gravity |-> out.gravity, oxy |-> out.oxy,
    brick |-> out.brick, water |-> out.water ]

\* the error a failed load reports: the section, the key and the store index
\* the dialog names
NoError == [section |-> "", key |-> "", index |-> 0, problem |-> "none"]
LoadError(section, key, index, problem) ==
  [section |-> section, key |-> key, index |-> index, problem |-> problem]

\* the two checks made on a numeric key: get() == nullptr, then !isNumber()
NumberKeyProblem(obj, key) ==
  IF obj[key].type = "absent" THEN "absent"
  ELSE IF obj[key].type # "number" THEN "type"
  ELSE "none"

\* the first key, in the order the loader reads them, that fails its checks
FirstBadKey(obj, keys) ==
  LET bad == {i \in 1..Len(keys) : NumberKeyProblem(obj, keys[i]) # "none"}
  IN IF bad = {} THEN 0 ELSE CHOOSE i \in bad : \A j \in bad : i <= j

\* one section of numeric keys: the section is looked up and must be an
\* object, then each key is checked and assigned in turn; the keys read before
\* the first failure stay assigned.  old holds the members the model keeps.
loadSection(old, root, name, keys, s16keys) ==
  IF root[name].type = "absent"
  THEN [ok |-> FALSE, error |-> LoadError(name, "", 0, "absent"), out |-> old]
  ELSE IF root[name].type # "object"
  THEN [ok |-> FALSE, error |-> LoadError(name, "", 0, "type"), out |-> old]
  ELSE
    LET obj == root[name].fields
        b == FirstBadKey(obj, keys)
        read == IF b = 0 THEN Len(keys) ELSE b - 1
    IN [ok |-> b = 0,
        error |-> IF b = 0 THEN NoError
                  ELSE LoadError(name, keys[b], 0, NumberKeyProblem(obj, keys[b])),
        out |-> [k \in DOMAIN old |->
                   IF \E i \in 1..read : keys[i] = k
                   THEN IF k \in s16keys THEN ToS16(obj[k].num) ELSE ToF32(obj[k].num)
                   ELSE old[k]]]

loadLube(out, root) ==
  LET r == loadSection(out.lube, root, "lube",
                       << "base", "upgrade", "maxTier" >>, {"maxTier"})
  IN [ok |-> r.ok, error |-> r.error, out |-> [out EXCEPT !.lube = r.out]]

loadGravity(out, root) ==
  LET r == loadSection(out.gravity, root, "gravity",
                       << "base", "upgrade", "threshold", "maxTier" >>, {"maxTier"})
  IN [ok |-> r.ok, error |-> r.error, out |-> [out EXCEPT !.gravity = r.out]]

loadOxy(out, root) ==
  LET r == loadSection(out.oxy, root, "oxy", << "regen", "drain", "min" >>, {})
  IN [ok |-> r.ok, error |-> r.error, out |-> [out EXCEPT !.oxy = r.out]]

\* toilet{xPos, yPos, size} is read by the renderer only: checked, not kept
loadToilet(out, root) ==
  LET r == loadSection(<< >>, root, "toilet", << "xPos", "yPos", "size" >>, {})
  IN [ok |-> r.ok, error |-> r.error, out |-> out]

\* mutant: brick.size is not checked
loadBrick_noSize(out, root) ==
  LET r == loadSection(out.brick, root, "brick",
                       << "xPos", "startY", "endY", "fallSpeed" >>, {})
  IN [ok |-> r.ok, error |-> r.error, out |-> [out EXCEPT !.brick = r.out]]

loadBrick(out, root) ==
  LET r == loadSection(out.brick, root, "brick",
                       << "xPos", "startY", "endY", "fallSpeed", "size" >>, {})
  IN [ok |-> r.ok, error |-> r.error, out |-> [out EXCEPT !.brick = r.out]]

\* one element of `store`; the members assigned before the first failing
\* check stay assigned.  index is the element's position, from 0.
loadStoreItem(itemV, index) ==
  LET fail(key, problem, item) ==
        [ok |-> FALSE, error |-> LoadError("store", key, index, problem),
         item |-> item]
      i0 == StoreItemUnset
      i1 == [i0 EXCEPT !.price = ToS16(itemV.price.num)]
      i2 == [i1 EXCEPT !.icon = ToS16(itemV.icon.num)]
  IN
  IF itemV.type # "object" THEN fail("", "type", i0)
  ELSE IF itemV.name.type # "string" THEN fail("name", "invalid", i0)
  ELSE IF itemV.desc.type # "string" THEN fail("desc", "invalid", i0)
  ELSE IF itemV.price.type # "number" THEN fail("price", "invalid", i0)
  ELSE IF itemV.icon.type # "number" THEN fail("icon", "invalid", i1)
  ELSE IF itemV.lubeTier.type # "absent"
  THEN IF itemV.lubeTier.type # "number"
       THEN fail("lubeTier", "type", [i2 EXCEPT !.kind = Lube])
       ELSE [ok |-> TRUE, error |-> NoError,
             item |-> [i2 EXCEPT !.kind = Lube,
                                 !.argument = ToS16(itemV.lubeTier.num)]]
  ELSE IF itemV.gravityTier.type # "absent"
  THEN IF itemV.gravityTier.type # "number"
       THEN fail("gravityTier", "type", [i2 EXCEPT !.kind = Gravity])
       ELSE [ok |-> TRUE, error |-> NoError,
             item |-> [i2 EXCEPT !.kind = Gravity,
                                 !.argument = ToS16(itemV.gravityTier.num)]]
  ELSE IF itemV.endGame.type # "absent"
  THEN [ok |-> TRUE, error |-> NoError, item |-> [i2 EXCEPT !.kind = EndGame]]
  ELSE fail("", "discriminant", i2)

\* `store`: looked up, must be an array; out.store takes the array's size and
\* the elements are loaded in order up to the first that fails
loadStore(out, root) ==
  IF root.store.type = "absent"
  THEN [ok |-> FALSE, error |-> LoadError("store", "", 0, "absent"), out |-> out]
  ELSE IF root.store.type # "array"
  THEN [ok |-> FALSE, error |-> LoadError("store", "", 0, "type"), out |-> out]
  ELSE
    LET items == root.store.items
        r == [i \in 1..Len(items) |-> loadStoreItem(items[i], i - 1)]
        bad == {i \in 1..Len(items) : ~r[i].ok}
        b == IF bad = {} THEN 0 ELSE CHOOSE i \in bad : \A j \in bad : i <= j
    IN [ok |-> b = 0,
        error |-> IF b = 0 THEN NoError ELSE r[b].error,
        out |-> [out EXCEPT !.store =
                   [i \in 1..Len(items) |->
                      IF b = 0 \/ i <= b THEN r[i].item ELSE StoreItemUnset]]]

\* Config::load: the file must be non-empty, readable, valid JSON and an
\* object; the sections are then loaded in this order, stopping at the first
\* failure
ConfigLoad(out, file) ==
  IF file.form = "empty"
  THEN [ok |-> FALSE, error |-> LoadError("file", "", 0, "empty"), out |-> out]
  ELSE IF file.form = "unreadable"
  THEN [ok |-> FALSE, error |-> LoadError("file", "", 0, "unreadable"), out |-> out]
  ELSE IF file.form = "invalid"
  THEN [ok |-> FALSE, error |-> LoadError("file", "", 0, "invalid"), out |-> out]
  ELSE IF file.form # "object"
  THEN [ok |-> FALSE, error |-> LoadError("file", "", 0, "type"), out |-> out]
  ELSE
    LET r1 == loadLube(out, file.root) IN
    IF ~r1.ok THEN r1 ELSE
    LET r2 == loadGravity(r1.out, file.root) IN
    IF ~r2.ok THEN r2 ELSE
    LET r3 == loadOxy(r2.out, file.root) IN
    IF ~r3.ok THEN r3 ELSE
    LET r4 == loadStore(r3.out, file.root) IN
    IF ~r4.ok THEN r4 ELSE
    LET r5 == loadToilet(r4.out, file.root) IN
    IF ~r5.ok THEN r5 ELSE
    loadBrick(r5.out, file.root)

\* the result slot before Config::load has run
NotLoaded ==
  [ok |-> FALSE, error |-> LoadError("", "", 0, "pending"), out |-> ConfigUnset]

\* ------------------------------------------------------- cfg.json documents
\* the store element that yields a given catalog entry
CfgItemOf(it) ==
  [type |-> "object", name |-> JString, desc |-> JString,
   price |-> JNumber(it.price * Scale), icon |-> JNumber(0),
   lubeTier |-> IF it.kind = Lube THEN JNumber(it.argument * Scale) ELSE JAbsent,
   gravityTier |-> IF it.kind = Gravity THEN JNumber(it.argument * Scale)
                   ELSE JAbsent,
   endGame |-> IF it.kind = EndGame THEN JBool ELSE JAbsent]

\* the document that yields a given configuration and catalog
CfgRootOf(c, store) ==
  [ lube |-> [type |-> "object", fields |->
       [base |-> JNumber(c.lube.base), upgrade |-> JNumber(c.lube.upgrade),
        maxTier |-> JNumber(c.lube.maxTier * Scale)]],
    gravity |-> [type |-> "object", fields |->
       [base |-> JNumber(c.gravity.base), upgrade |-> JNumber(c.gravity.upgrade),
        threshold |-> JNumber(c.gravity.threshold),
        maxTier |-> JNumber(c.gravity.maxTier * Scale)]],
    oxy |-> [type |-> "object", fields |->
       [regen |-> JNumber(c.oxy.regen), drain |-> JNumber(c.oxy.drain),
        min |-> JNumber(c.oxy.min)]],
    toilet |-> [type |-> "object", fields |->
       [xPos |-> JNumber(4000), yPos |-> JNumber(5000), size |-> JNumber(2500)]],
    brick |-> [type |-> "object", fields |->
       [xPos |-> JNumber(0), startY |-> JNumber(0), endY |-> JNumber(Scale),
        fallSpeed |-> JNumber(c.brick.fallSpeed), size |-> JNumber(Scale)]],
    store |-> [type |-> "array",
               items |-> [i \in 1..Len(store) |-> CfgItemOf(store[i])]] ]

CfgFileOf(c, store) == [form |-> "object", root |-> CfgRootOf(c, store)]

\* the documents Config::load is applied to: the well-formed document of
\* IdleConfig and the catalog, with up to two required keys absent or of
\* another type, with a section absent or not an object, with `store` absent or
\* not an array, and with store elements of every make-up
GoodRoot == CfgRootOf(IdleConfig, ConfigStore)

CfgSections == {"lube", "gravity", "oxy", "toilet", "brick"}

KeyFaults ==
  UNION { { << s, k, v >> : k \in DOMAIN GoodRoot[s].fields,
                             v \in {JAbsent, JString} } : s \in CfgSections }

FaultedRoots ==
  { [[GoodRoot EXCEPT ![a[1]].fields[a[2]] = a[3]]
               EXCEPT ![b[1]].fields[b[2]] = b[3]] : a \in KeyFaults, b \in KeyFaults }
  \cup { [GoodRoot EXCEPT ![s].type = t] :
           s \in CfgSections \cup {"store"}, t \in {"absent", "string"} }

StoreElements ==
  [ type : {"object"},
    name : {JString, JAbsent, JNumber(Scale)},
    desc : {JString, JAbsent, JNumber(Scale)},
    price : {JNumber(15000), JAbsent, JString},
    icon : {JNumber(Scale), JAbsent, JString},
    lubeTier : {JAbsent, JNumber(Scale), JString},
    gravityTier : {JAbsent, JNumber(2 * Scale), JString},
    endGame : {JAbsent, JBool, JString} ]
  \cup { [type |-> "string"] }

StoreArrays ==
  { << >> } \cup { << e >> : e \in StoreElements }
  \cup { << CfgItemOf(ConfigStore[1]), e >> :
           e \in { x \in StoreElements :
                     /\ x.type = "object"
                     /\ x.name = JString /\ x.desc = JString
                     /\ x.price.type = "number" /\ x.icon.type = "number" } }

CfgFiles ==
  { [form |-> "object", root |-> r] : r \in FaultedRoots }
  \cup { [form |-> "object", root |-> [GoodRoot EXCEPT !.store.items = s]] :
           s \in StoreArrays }
  \cup { [form |-> f, root |-> GoodRoot] :
           f \in {"empty", "unreadable", "invalid", "array"} }

\* ---------------------------------------------------------------- Savefile
\* Savefile{}: the default record (v2 fields and the transient dirty flag)
SavefileDefault ==
  [score |-> 0, prestige |-> 0, lubeTier |-> 0, gravityTier |-> 0, oxyTier |-> 0,
   dirty |-> FALSE]

\* the persisted part of a Savefile (dirty is not persisted)
Persisted(s) ==
  [score |-> s.score, prestige |-> s.prestige, lubeTier |-> s.lubeTier,
   gravityTier |-> s.gravityTier, oxyTier |-> s.oxyTier]

\* a Savefile loaded from a persisted record
Loaded(r) ==
  [score |-> r.score, prestige |-> r.prestige, lubeTier |-> r.lubeTier,
   gravityTier |-> r.gravityTier, oxyTier |-> r.oxyTier, dirty |-> FALSE]

\* the Savefile after it has been written out: the dirty flag is cleared
SavefileSaved(s) == [s EXCEPT !.dirty = FALSE]

VARIABLES
  screen,               \* "preload", "shit", "swap" (end state requested),
                        \* "end", "menu"
  disk,                 \* the data store: key -> persisted record
  mConfig,              \* the Config loaded from the bundle
  cfgFile,              \* the cfg.json document of the bundle
  cfgResult,            \* what Config::load returned and the Config it filled
  \* ShitState
  mEffort, mOxy, mOuttaBreath, mProgress, mCooldown, mGravity, mProgressDecay,
  mBrickFall, mTimer, sSplash, mSave,
  \* StoreSubState
  storeOpen, mItemHover, mPurchaseFloat, mPurchaseFloatTimer,
  \* EndState
  mEndSave, mCountdown,
  \* observation of the last step
  op,                   \* name of the handler that ran
  outcome,              \* what it did
  lastDelta,            \* the delta a tick was called with, else 0
  lastItem,             \* catalog index acquire was called with, else 0
  writes,               \* persistence writes it issued
  cues,                 \* audio cues and dialogs it raised
  terminals,            \* terminal transitions so far
  \* history
  clickRun,             \* accepted clicks in a row, counted from rest: 1..10;
                        \* 11 once a tick has followed the tenth, until the
                        \* next tick after a completion
  fallSplashes,         \* splash cues played since the last completion
  sinceCompletion,      \* time ticked between the completing tick and the reset
  breathCleared         \* the latest tick found outOfBreath set and cleared it

simVars == << mEffort, mOxy, mOuttaBreath, mProgress, mCooldown, mGravity,
              mProgressDecay, mBrickFall, mTimer >>
storeVars == << storeOpen, mItemHover, mPurchaseFloat, mPurchaseFloatTimer >>
endVars == << mEndSave, mCountdown >>
loadVars == << cfgFile, cfgResult >>
histVars == << clickRun, fallSplashes, sinceCompletion, breathCleared >>
vars == << screen, disk, mConfig, loadVars, simVars, sSplash, mSave, storeVars,
           endVars, op, outcome, lastDelta, lastItem, writes, cues, terminals,
           histVars >>


\* ----------------------------------------------------- ShitState helpers
\* mutant: the lube tier is left out of the recalculation
recalculateProgressDecay_noTier(save) == mConfig.lube.base

\* recalculateProgressDecay: lube.base - lubeTier * lube.upgrade
recalculateProgressDecay(save) ==
  mConfig.lube.base - save.lubeTier * mConfig.lube.upgrade

\* recalculateGravity: gravity.base + gravityTier * gravity.upgrade
recalculateGravity(save) ==
  mConfig.gravity.base + save.gravityTier * mConfig.gravity.upgrade

\* mutant: the cooldown is not part of the guard
ClickAccepted_anyCooldown(outta, cooldown, effort, oxy) ==
  /\ ~outta
  /\ effort < cMaxEffort
  /\ oxy >= mConfig.oxy.min

\* the guard of the effort increment in ShitState::on
ClickAccepted(outta, cooldown, effort, oxy) ==
  /\ ~outta
  /\ cooldown <= 0
  /\ effort < cMaxEffort
  /\ oxy >= mConfig.oxy.min

\* mutant: a click adds half the increment
EffortAfterClick_half(effort) == effort + cEffortIncrement \div 2

\* mEffort += cEffortIncrement
EffortAfterClick(effort) == effort + cEffortIncrement

\* tick, effort decay
EffortAfterDecay(effort, outta, cooldown, delta) ==
  IF effort > 0
  THEN LET e1 == effort - Mul(cEffortDecay, delta)
           e2 == IF outta \/ cooldown > 0 THEN e1 - delta ELSE e1
       IN IF e2 < 0 THEN 0 ELSE e2
  ELSE effort

\* mutant: no regeneration
OxyAfterRegen_none(oxy, delta) == oxy

\* tick, oxygen regeneration (no upper clamp in the code)
OxyAfterRegen(oxy, delta) ==
  IF oxy < Scale THEN oxy + Mul(mConfig.oxy.regen, delta) ELSE oxy

\* mutant: outOfBreath is cleared as soon as oxygen is back at oxy.min
BreathAfterRegen_atMin(oxy, outta) ==
  IF oxy < mConfig.oxy.min THEN outta ELSE FALSE

\* mutant: the flag counts as cleared whatever the oxygen
BreathAfterRegen_cleared(oxy, outta) == FALSE

\* tick, outOfBreath is cleared only when the oxygen step starts with oxy >= 1
BreathAfterRegen(oxy, outta) == IF oxy < Scale THEN outta ELSE FALSE

\* mutant: the drain is added instead of subtracted
OxyAfterDrain_added(oxy, effort, delta) ==
  oxy + Mul(Mul(effort, mConfig.oxy.drain), delta)

\* tick, oxygen drain before the <= 0 test
OxyAfterDrain(oxy, effort, delta) ==
  oxy - Mul(Mul(effort, mConfig.oxy.drain), delta)

\* tick, progress advance: effort share, then gravity past the threshold
ProgressAdvance(progress, effort, gravity, delta) ==
  LET p1 == progress + Mul(Mul(effort, cProgressScalar), delta)
  IN IF p1 >= mConfig.gravity.threshold THEN p1 + Mul(gravity, delta) ELSE p1

\* tick, progress decay when the cycle did not complete
ProgressAfterDecay(progress, decay, delta) ==
  IF progress > 0
  THEN LET p == progress - Mul(decay, delta) IN IF p < 0 THEN 0 ELSE p
  ELSE progress

\* mWaterY = minY + (0.5*sin(t) + 1) * (maxY - minY): the ends of its range
WaterYs ==
  LET span == mConfig.water.maxY - mConfig.water.minY
  IN { mConfig.water.minY + span \div 2, mConfig.water.minY + (3 * span) \div 2 }

\* mutant: the flush is issued on every tick
FlushNeeded_always(save) == TRUE

\* tick, the flush at its start: if(mSave.dirty) save()
FlushNeeded(save) == save.dirty

\* mutant: the score is bumped twice
ScoreAfterCompletion_twice(score) == Wrap16(score + 2)

\* tick, ++mSave.score on completion (s16)
ScoreAfterCompletion(score) == Wrap16(score + 1)

\* mutant: save() leaves the store as it was
SaveProgress_dropped(d, save) == d

\* ShitState::save: write the Savefile under the key "progress"
SaveProgress(d, save) == [d EXCEPT !.progress = Persisted(save)]

\* -------------------------------------------------------------------- Init
\* the data store at the first entry: empty (a first run, every record at
\* its default) or left by earlier sessions (score 50 at prestige 1)
InitialDisk ==
  { [progress |-> Persisted(SavefileDefault),
     savejson |-> Persisted(SavefileDefault)],
    [progress |-> [score |-> 50, prestige |-> 1, lubeTier |-> 0,
                   gravityTier |-> 0, oxyTier |-> 0],
     savejson |-> [score |-> 0, prestige |-> 1, lubeTier |-> 0,
                   gravityTier |-> 0, oxyTier |-> 0]] }

\* ShitState's member initialisers
ShitConstructed ==
  /\ mEffort = 0
  /\ mOxy = Scale
  /\ mOuttaBreath = FALSE
  /\ mProgress = 0
  /\ mCooldown = 0
  /\ mBrickFall = cBrickFallInactive
  /\ mTimer = 0

\* the overlay, the terminal screen and the observation before anything ran
NothingRan ==
  /\ sSplash = TRUE
  /\ storeOpen = FALSE
  /\ mItemHover = 0 - 1
  /\ mPurchaseFloat = cNoPurchaseFloat
  /\ mPurchaseFloatTimer = 0
  /\ mEndSave = SavefileDefault
  /\ mCountdown = cCountdownStart
  /\ op = "init"
  /\ outcome = "none"
  /\ lastDelta = 0
  /\ lastItem = 0
  /\ writes = 0
  /\ cues = {}
  /\ terminals = 0
  /\ clickRun = 0
  /\ fallSplashes = 0
  /\ sinceCompletion = 0
  /\ breathCleared = FALSE

\* the simulation screen entered: cfg.json loaded without error, the save
\* loaded from the data store, init() run
InitOn(configs, disks) ==
  /\ mConfig \in configs
  /\ cfgFile = CfgFileOf(mConfig, ConfigStore)
  /\ cfgResult = ConfigLoad(ConfigUnset, cfgFile)
  /\ screen = "shit"
  /\ disk \in disks
  /\ ShitConstructed
  /\ mSave = Loaded(disk.progress)
  /\ mGravity = recalculateGravity(mSave)
  /\ mProgressDecay = recalculateProgressDecay(mSave)
  /\ NothingRan

InitWith(configs) == InitOn(configs, InitialDisk)

\* the simulation screen constructed, its bundle not yet loaded
InitLoad ==
  /\ cfgFile \in CfgFiles
  /\ cfgResult = NotLoaded
  /\ mConfig = ConfigOf(ConfigUnset)
  /\ screen = "preload"
  /\ disk \in InitialDisk
  /\ ShitConstructed
  /\ mSave = SavefileDefault
  /\ mGravity = 0
  /\ mProgressDecay = 9000
  /\ NothingRan

\* ----------------------------------------------------------- Config::load
\* the bundle loads cfg.json into mConfig; a failure raises an error dialog
LoadConfig ==
  LET r == ConfigLoad(cfgResult.out, cfgFile)
  IN /\ screen = "preload"
     /\ op = "init"
     /\ cfgResult' = r
     /\ mConfig' = ConfigOf(r.out)
     /\ op' = "load"
     /\ outcome' = IF r.ok THEN "loaded" ELSE "failed"
     /\ cues' = IF r.ok THEN {} ELSE {"dialog"}
     /\ lastDelta' = 0
     /\ lastItem' = 0
     /\ writes' = 0
     /\ UNCHANGED << cfgFile, screen, disk, simVars, sSplash, mSave, storeVars,
                     endVars, terminals, histVars >>

Init == InitWith({IdleConfig})

InitSim == InitWith({PlayConfig})

InitOxy == InitWith({PlayConfig, DrainConfig})

InitBreath == InitWith({BreathConfig, SurgeConfig})

\* a data store whose score stands at the top of the s16 range
FullDisk ==
  { [progress |-> [score |-> S16Max, prestige |-> 0, lubeTier |-> 0,
                   gravityTier |-> 0, oxyTier |-> 0],
     savejson |-> Persisted(SavefileDefault)] }

InitFull == InitOn({IdleConfig}, FullDisk)

\* a data store with a score that buys every item, before the first prestige
RichDisk ==
  { [progress |-> [score |-> 50, prestige |-> 0, lubeTier |-> 0,
                   gravityTier |-> 0, oxyTier |-> 0],
     savejson |-> Persisted(SavefileDefault)] }

InitRich == InitOn({IdleConfig}, RichDisk)

\* IdleConfig on either data store, PinnedConfig on the one left by earlier
\* sessions (the score buys items while effort and oxygen are in play)
InitOverlay ==
  \/ InitWith({IdleConfig})
  \/ InitWith({PinnedConfig}) /\ disk.progress.score > 0

\* ------------------------------------------------------- ShitState::tick
\* mutant: the cooldown counts as over with half of it left
CooldownRunning_half(cooldown) == cooldown > cCooldownValue \div 2

\* the test of the cooldown branch
CooldownRunning(cooldown) == cooldown > 0

\* the completions the model follows
CompletionTaken(score) == (score >= 0 /\ score < MaxScore) \/ score = S16Max

ShitTick(delta, wy) ==
  LET flush == FlushNeeded(mSave)
      s0 == IF flush THEN SavefileSaved(mSave) ELSE mSave
      d0 == IF flush THEN SaveProgress(disk, mSave) ELSE disk
      w0 == IF flush THEN 1 ELSE 0
      t1 == Min(mTimer + delta, cFadeInTime)
  IN
  /\ mTimer' = t1
  /\ IF t1 < cFadeInTime
     THEN /\ mSave' = s0
          /\ disk' = d0
          /\ writes' = w0
          /\ cues' = {}
          /\ outcome' = "fade"
          /\ UNCHANGED << mEffort, mOxy, mOuttaBreath, mProgress, mCooldown,
                          mGravity, mProgressDecay, mBrickFall, sSplash >>
     ELSE
       LET e1 == EffortAfterDecay(mEffort, mOuttaBreath, mCooldown, delta)
           o1 == OxyAfterRegen(mOxy, delta)
           b1 == BreathAfterRegen(mOxy, mOuttaBreath)
           o2 == OxyAfterDrain(o1, e1, delta)
           depleted == o2 <= 0
           breathCue == IF depleted /\ ~b1 THEN {"breath"} ELSE {}
           p2 == ProgressAdvance(mProgress, e1, mGravity, delta)
           advancing == mProgress < Scale
           completes == advancing /\ p2 >= Scale
           counting == ~advancing /\ CooldownRunning(mCooldown)
           resets == ~advancing /\ ~CooldownRunning(mCooldown)
           s1 == IF completes
                 THEN SavefileSaved([s0 EXCEPT !.score = ScoreAfterCompletion(s0.score)])
                 ELSE s0
           bf1 == IF completes THEN 0
                  ELSE IF resets THEN cBrickFallInactive ELSE mBrickFall
           sp1 == IF resets THEN TRUE ELSE sSplash
           bf2 == IF bf1 >= 0 THEN bf1 + Mul(mConfig.brick.fallSpeed, delta) ELSE bf1
           splashes == bf1 >= 0 /\ bf2 >= wy /\ sp1
       IN
       /\ ~(completes /\ ~CompletionTaken(mSave.score))
       /\ mEffort' = e1
       /\ mOxy' = IF depleted THEN 0 ELSE o2
       /\ mOuttaBreath' = IF depleted THEN TRUE ELSE b1
       /\ mProgress' = IF advancing
                       THEN IF completes THEN p2
                            ELSE ProgressAfterDecay(p2, mProgressDecay, delta)
                       ELSE IF counting THEN mProgress ELSE 0
       /\ mCooldown' = IF completes THEN cCooldownValue
                       ELSE IF counting THEN mCooldown - delta
                       ELSE IF resets THEN 0 ELSE mCooldown
       /\ mGravity' = IF resets THEN recalculateGravity(s0) ELSE mGravity
       /\ mProgressDecay' = IF resets THEN recalculateProgressDecay(s0)
                            ELSE mProgressDecay
       /\ mBrickFall' = bf2
       /\ sSplash' = IF splashes THEN FALSE ELSE sp1
       /\ mSave' = s1
       /\ disk' = IF completes THEN SaveProgress(d0, s1) ELSE d0
       /\ writes' = w0 + (IF completes THEN 1 ELSE 0)
       /\ cues' = breathCue \cup (IF completes THEN {"pop"} ELSE {})
                            \cup (IF splashes THEN {"splash"} ELSE {})
       /\ outcome' = IF completes THEN "complete"
                     ELSE IF resets THEN "reset"
                     ELSE IF counting THEN "cooldown" ELSE "advance"

\* ----------------------------------------------------- StoreSubState::tick
\* mutant: the notification is removed only once the lifetime is exceeded
StoreTick_late(delta) ==
  IF mPurchaseFloat # cNoPurchaseFloat
  THEN LET t == mPurchaseFloatTimer + delta
       IN /\ mPurchaseFloatTimer' = t
          /\ mPurchaseFloat' = IF t > cPurchaseFloatLifetime
                               THEN cNoPurchaseFloat ELSE mPurchaseFloat
  ELSE UNCHANGED << mPurchaseFloat, mPurchaseFloatTimer >>

StoreTick(delta) ==
  IF mPurchaseFloat # cNoPurchaseFloat
  THEN LET t == mPurchaseFloatTimer + delta
       IN /\ mPurchaseFloatTimer' = t
          /\ mPurchaseFloat' = IF t >= cPurchaseFloatLifetime
                               THEN cNoPurchaseFloat ELSE mPurchaseFloat
  ELSE UNCHANGED << mPurchaseFloat, mPurchaseFloatTimer >>

\* mutant: the overlay is pushed without tickParent
tickParent_off == FALSE

\* the option the store overlay is pushed with
tickParent == TRUE

\* one frame on the simulation screen: the store overlay ticks when it is
\* open, and ShitState ticks with the same delta unless the overlay is open and
\* was pushed without tickParent
TickWith(deltas) ==
  \E delta \in deltas, wy \in WaterYs :
    /\ screen = "shit"
    /\ IF storeOpen /\ ~tickParent
       THEN /\ writes' = 0
            /\ cues' = {}
            /\ outcome' = "none"
            /\ UNCHANGED << simVars, sSplash, mSave, disk >>
       ELSE ShitTick(delta, wy)
    /\ IF storeOpen THEN StoreTick(delta)
       ELSE UNCHANGED << mPurchaseFloat, mPurchaseFloatTimer >>
    /\ op' = "tick"
    /\ lastDelta' = delta
    /\ lastItem' = 0
    /\ clickRun' = IF clickRun < 10 THEN 0
                    ELSE IF clickRun = 11 /\ mProgress >= Scale THEN 0
                    ELSE 11
    /\ fallSplashes' =
         LET n == IF "splash" \in cues' THEN 1 ELSE 0
         IN IF outcome' = "complete" THEN n
            ELSE IF outcome' = "reset" THEN 0
            ELSE fallSplashes + n
    /\ sinceCompletion' = IF mProgress < Scale THEN 0
                           ELSE IF outcome' = "reset" THEN sinceCompletion
                           ELSE sinceCompletion + delta
    /\ breathCleared' = (mOuttaBreath /\ ~mOuttaBreath')
    /\ UNCHANGED << screen, mConfig, loadVars, storeOpen, mItemHover, endVars,
                    terminals >>


Tick == TickWith(Deltas)

\* a frame that takes time
TickPositive == TickWith(Deltas \ {0})

\* a short frame
BreathTick == TickWith(BreathDeltas)

\* ------------------------------------------------------- ShitState::on
\* the state a session starts from: nothing scored, no effort, full oxygen, no
\* cooldown
AtRest ==
  /\ mSave.score = 0
  /\ mEffort = 0
  /\ mOxy = Scale
  /\ mCooldown = 0

\* updateHoveringStoreIcon: the position lies strictly inside the icon's
\* rectangle
updateHoveringStoreIcon(pos) ==
  /\ pos[1] > cStoreIconX /\ pos[1] < cStoreIconX + cStoreIconW
  /\ pos[2] > cStoreIconY /\ pos[2] < cStoreIconY + cStoreIconH

\* the positions of the clicks: inside the store icon, on the icon's left
\* edge, on the toilet, in the screen's corner
ClickPositions == { << 7250, 1000 >>, << 7000, 1000 >>, << 5000, 6000 >>, << 0, 0 >> }

\* MouseDown at pos on the simulation screen
ShitClickAt(pos) ==
  LET onIcon == updateHoveringStoreIcon(pos) IN
    /\ screen = "shit"
    /\ ~storeOpen
    /\ op' = "click"
    /\ lastDelta' = 0
    /\ lastItem' = 0
    /\ writes' = 0
    /\ cues' = {}
    /\ IF mTimer < cFadeInTime
       THEN /\ outcome' = "ignored"
            /\ UNCHANGED << mEffort, storeVars >>
       ELSE IF onIcon
       THEN /\ outcome' = "store"
            /\ storeOpen' = TRUE
            /\ mItemHover' = 0 - 1
            /\ mPurchaseFloat' = cNoPurchaseFloat
            /\ mPurchaseFloatTimer' = 0
            /\ UNCHANGED mEffort
       ELSE IF ClickAccepted(mOuttaBreath, mCooldown, mEffort, mOxy)
       THEN /\ outcome' = "effort"
            /\ mEffort' = EffortAfterClick(mEffort)
            /\ UNCHANGED storeVars
       ELSE /\ outcome' = "ignored"
            /\ UNCHANGED << mEffort, storeVars >>
    /\ clickRun' = IF /\ outcome' = "effort"
                       /\ clickRun < 10
                       /\ (clickRun > 0 \/ AtRest)
                    THEN clickRun + 1
                    ELSE clickRun
    /\ UNCHANGED << screen, disk, mConfig, loadVars, mOxy, mOuttaBreath, mProgress,
                    mCooldown, mGravity, mProgressDecay, mBrickFall, mTimer,
                    sSplash, mSave, endVars, terminals, fallSplashes,
                    sinceCompletion, breathCleared >>

ShitClick == \E pos \in ClickPositions : ShitClickAt(pos)


\* -------------------------------------------------- StoreSubState helpers
\* mutant: no item is ever reported as owned
hasItem_never(save, item) == FALSE

\* mutant: a tier counts as owned only when it equals the argument
hasItem_exact(save, item) ==
  IF save.prestige < item.prestige THEN FALSE
  ELSE IF item.kind = Lube THEN save.lubeTier = item.argument
  ELSE IF item.kind = Gravity THEN save.gravityTier = item.argument
  ELSE IF item.kind = Oxy THEN save.oxyTier = item.argument
  ELSE FALSE

\* mutant: the default case reports the item as owned
hasItem_defaultOwned(save, item) ==
  IF save.prestige < item.prestige THEN FALSE
  ELSE IF item.kind = Lube THEN save.lubeTier >= item.argument
  ELSE IF item.kind = Gravity THEN save.gravityTier >= item.argument
  ELSE IF item.kind = Oxy THEN save.oxyTier >= item.argument
  ELSE TRUE

\* StoreSubState::hasItem
hasItem(save, item) ==
  IF save.prestige < item.prestige THEN FALSE
  ELSE IF item.kind = Lube THEN save.lubeTier >= item.argument
  ELSE IF item.kind = Gravity THEN save.gravityTier >= item.argument
  ELSE IF item.kind = Oxy THEN save.oxyTier >= item.argument
  ELSE FALSE

\* catalog indices of the items whose required prestige is met, in order
VisibleItems(save) ==
  SelectSeq([i \in 1..Len(ConfigStore) |-> i],
            LAMBDA i : ~(ConfigStore[i].prestige > save.prestige))

\* mutant: the display row indexes the catalog directly, nothing is skipped
getHoveredItem_unfiltered(hover, save) ==
  IF hover < 0 THEN 0
  ELSE IF hover + 1 <= Len(ConfigStore) THEN hover + 1
  ELSE 0

\* StoreSubState::getHoveredItem: the catalog index of the item on display
\* row hover, 0 for nullptr
getHoveredItem(hover, save) ==
  IF hover < 0 THEN 0
  ELSE IF hover + 1 <= Len(VisibleItems(save)) THEN VisibleItems(save)[hover + 1]
  ELSE 0

\* mutant: the funds test comes before the ownership test
AcquireOutcome_fundsFirst(save, item) ==
  IF save.score < item.price THEN "InsufficientFunds"
  ELSE IF hasItem(save, item) THEN "AlreadyOwned"
  ELSE "Purchased"

\* StoreSubState::acquire, which of its three exits is taken
AcquireOutcome(save, item) ==
  IF hasItem(save, item) THEN "AlreadyOwned"
  ELSE IF save.score < item.price THEN "InsufficientFunds"
  ELSE "Purchased"

\* StoreSubState::acquire, the tier assignments of the switch
AcquireTiers(save, item) ==
  IF item.kind = Lube
  THEN [save EXCEPT !.lubeTier = Max(save.lubeTier, item.argument)]
  ELSE IF item.kind = Gravity
  THEN [save EXCEPT !.gravityTier = Max(save.gravityTier, item.argument)]
  ELSE IF item.kind = Oxy
  THEN [save EXCEPT !.oxyTier = Max(save.oxyTier, item.argument)]
  ELSE save

\* mutant: the price is deducted before the funds test
AcquireSave_chargeFirst(save, item) ==
  IF AcquireOutcome(save, item) = "Purchased"
  THEN AcquireTiers([save EXCEPT !.score = Wrap16(save.score - item.price),
                                 !.dirty = TRUE], item)
  ELSE IF AcquireOutcome(save, item) = "InsufficientFunds"
  THEN [save EXCEPT !.score = Wrap16(save.score - item.price)]
  ELSE save

\* mutant: a purchase does not mark the Savefile dirty
AcquireSave_notDirty(save, item) ==
  IF AcquireOutcome(save, item) = "Purchased"
  THEN AcquireTiers([save EXCEPT !.score = Wrap16(save.score - item.price)], item)
  ELSE save

\* StoreSubState::acquire, the Savefile it leaves behind
AcquireSave(save, item) ==
  IF AcquireOutcome(save, item) = "Purchased"
  THEN AcquireTiers([save EXCEPT !.score = Wrap16(save.score - item.price),
                                 !.dirty = TRUE], item)
  ELSE save

\* StoreSubState's member initialisers
StoreConstructed ==
  /\ mItemHover' = 0 - 1
  /\ mPurchaseFloat' = cNoPurchaseFloat
  /\ mPurchaseFloatTimer' = 0

\* ------------------------------------------------------- StoreSubState::on
\* MouseDown while the store is open.  inside: the click is in the store
\* window; row: the value updateItemHover computes for it (-1 off the items)
StoreClick ==
  \E inside \in BOOLEAN, row \in (0 - 1)..Len(ConfigStore) :
    /\ screen = "shit"
    /\ storeOpen
    /\ op' = "store"
    /\ lastDelta' = 0
    /\ writes' = 0
    /\ UNCHANGED << disk, mConfig, loadVars, simVars, sSplash, endVars, terminals,
                    histVars >>
    /\ IF ~inside
       THEN /\ row = 0 - 1
            /\ storeOpen' = FALSE
            /\ StoreConstructed
            /\ outcome' = "closed"
            /\ lastItem' = 0
            /\ cues' = {}
            /\ UNCHANGED << screen, mSave >>
       ELSE
         LET idx == getHoveredItem(row, mSave) IN
         IF row = 0 - 1 \/ row >= Len(ConfigStore) \/ idx = 0
         THEN /\ mItemHover' = row
              /\ outcome' = "none"
              /\ lastItem' = 0
              /\ cues' = {}
              /\ UNCHANGED << screen, mSave, storeOpen, mPurchaseFloat,
                              mPurchaseFloatTimer >>
         ELSE
           LET item == ConfigStore[idx]
               res == AcquireOutcome(mSave, item)
           IN
           /\ outcome' = res
           /\ lastItem' = idx
           /\ mSave' = AcquireSave(mSave, item)
           /\ mPurchaseFloatTimer' = 0
           /\ UNCHANGED storeOpen
           /\ IF res = "AlreadyOwned"
              THEN /\ mPurchaseFloat' = cAlreadyOwnedFloat
                   /\ mItemHover' = row
                   /\ cues' = {"broke"}
                   /\ UNCHANGED screen
              ELSE IF res = "InsufficientFunds"
              THEN /\ mPurchaseFloat' = cInsufficientFundsFloat
                   /\ mItemHover' = row
                   /\ cues' = {"broke"}
                   /\ UNCHANGED screen
              ELSE IF item.kind = EndGame
              THEN /\ screen' = "swap"
                   /\ mItemHover' = row
                   /\ cues' = {}
                   /\ UNCHANGED mPurchaseFloat
              ELSE /\ mPurchaseFloat' = row
                   /\ mItemHover' = 0 - 1
                   /\ cues' = {"buy"}
                   /\ UNCHANGED screen

\* ------------------------------------------------- StoreSubState::render
\* the text of the floating notification, "" when none is shown
PurchaseFloatText ==
  IF mPurchaseFloat = cNoPurchaseFloat THEN ""
  ELSE IF mPurchaseFloat = cInsufficientFundsFloat THEN "Insufficient funds"
  ELSE IF mPurchaseFloat = cAlreadyOwnedFloat THEN "Already owned"
  ELSE ConfigStore[mPurchaseFloat + 1].name

\* ------------------------------------------------ EndState::preload, init
\* mutant: prestige is written back as loaded
EndSave_same(loaded) ==
  [SavefileDefault EXCEPT !.prestige = loaded.prestige]

\* EndState::init: the Savefile it builds from the loaded one
EndSave(loaded) ==
  [SavefileDefault EXCEPT !.prestige = Wrap16(loaded.prestige + 1)]

\* the swap requested by acquire: ShitState and its store overlay are
\* destroyed, EndState loads "save.json", raises prestige and writes it back
EndEnter ==
  /\ screen = "swap"
  /\ disk.savejson.prestige < MaxPrestige
  /\ screen' = "end"
  /\ mEndSave' = EndSave(Loaded(disk.savejson))
  /\ disk' = [disk EXCEPT !.savejson = Persisted(EndSave(Loaded(disk.savejson)))]
  /\ mCountdown' = cCountdownStart
  /\ mEffort' = 0
  /\ mOxy' = Scale
  /\ mOuttaBreath' = FALSE
  /\ mProgress' = 0
  /\ mCooldown' = 0
  /\ mBrickFall' = cBrickFallInactive
  /\ mTimer' = 0
  /\ mGravity' = 0
  /\ mProgressDecay' = 0
  /\ mSave' = SavefileDefault
  /\ storeOpen' = FALSE
  /\ StoreConstructed
  /\ op' = "endinit"
  /\ lastDelta' = 0
  /\ outcome' = "none"
  /\ lastItem' = 0
  /\ writes' = 1
  /\ cues' = {}
  /\ terminals' = terminals + 1
  /\ UNCHANGED << mConfig, loadVars, sSplash, histVars >>

\* ---------------------------------------------------------- EndState::tick
\* mutant: the dialog is raised at every prestige from 1 on
ShowsNotification_fromOne(save) == save.prestige >= 1

\* tick, the test guarding dialog::info
ShowsNotification(save) == save.prestige = 1

EndTick ==
  \E delta \in Deltas :
    /\ screen = "end"
    /\ mCountdown' = mCountdown - delta
    /\ IF mCountdown - delta <= 0
       THEN /\ screen' = "menu"
            /\ cues' = IF ShowsNotification(mEndSave) THEN {"notification"} ELSE {}
            /\ outcome' = "finished"
       ELSE /\ cues' = {}
            /\ outcome' = "waiting"
            /\ UNCHANGED screen
    /\ op' = "endtick"
    /\ lastDelta' = delta
    /\ lastItem' = 0
    /\ writes' = 0
    /\ UNCHANGED << disk, mConfig, loadVars, simVars, sSplash, mSave, storeVars,
                    mEndSave, terminals, histVars >>

\* ------------------------------------- ShitState constructor, preload, init
\* the simulation screen is entered again; sSplash is a function-local static:
\* it keeps its value within the process and is TRUE again in a new process
ShitEnter ==
  \E fresh \in BOOLEAN :
    /\ screen = "menu"
    /\ screen' = "shit"
    /\ mEffort' = 0
    /\ mOxy' = Scale
    /\ mOuttaBreath' = FALSE
    /\ mProgress' = 0
    /\ mCooldown' = 0
    /\ mBrickFall' = cBrickFallInactive
    /\ mTimer' = 0
    /\ mSave' = Loaded(disk.progress)
    /\ mGravity' = recalculateGravity(Loaded(disk.progress))
    /\ mProgressDecay' = recalculateProgressDecay(Loaded(disk.progress))
    /\ sSplash' = IF fresh THEN TRUE ELSE sSplash
    /\ op' = "enter"
    /\ lastDelta' = 0
    /\ outcome' = "none"
    /\ lastItem' = 0
    /\ writes' = 0
    /\ cues' = {}
    /\ clickRun' = 0
    /\ fallSplashes' = 0
    /\ sinceCompletion' = 0
    /\ breathCleared' = FALSE
    /\ UNCHANGED << disk, mConfig, loadVars, storeVars, endVars, terminals >>

Next == Tick \/ ShitClick \/ StoreClick \/ EndEnter \/ EndTick \/ ShitEnter

Spec == Init /\ [][Next]_vars

\* every screen, from the data store with the score at the top of its range
SpecFull == InitFull /\ [][Next]_vars

NextSim == Tick \/ ShitClick

SpecSim == InitSim /\ [][NextSim]_vars

\* short frames and clicks on the breath configurations
NextBreath == BreathTick \/ ShitClick

SpecBreath == InitBreath /\ [][NextBreath]_vars

\* the game loop calls tick every frame: short frames keep occurring
SpecBreathFair == InitBreath /\ [][NextBreath]_vars /\ WF_vars(BreathTick)

\* the game loop calls tick every frame: frames that take time keep occurring
SpecSimFair == InitSim /\ [][NextSim]_vars /\ WF_vars(TickPositive)

\* the simulation screen under PlayConfig and under DrainConfig
SpecOxy == InitOxy /\ [][NextSim]_vars

NextOverlay == Tick \/ ShitClick \/ StoreClick

\* the simulation screen and the store overlay on top of it
SpecOverlay == InitOverlay /\ [][NextOverlay]_vars

\* the simulation screen and its store, from the data store of RichDisk
SpecRich == InitRich /\ [][NextOverlay]_vars

NextLoad == LoadConfig

\* Config::load alone, applied to the documents of CfgFiles
SpecLoad == InitLoad /\ [][NextLoad]_vars


\* ------------------------------------------------------------- properties
TierOf(save, kind) ==
  IF kind = Lube THEN save.lubeTier
  ELSE IF kind = Gravity THEN save.gravityTier
  ELSE save.oxyTier

Tiers(save) == << save.lubeTier, save.gravityTier, save.oxyTier >>

\* a step in which acquire ran (on the catalog entry lastItem')
AcquireStep == op' = "store" /\ lastItem' # 0

\* a tick that takes progress from below 1 to 1 or more
CompletingStep == op' = "tick" /\ mProgress < Scale /\ mProgress' >= Scale

\* C1: at the end of every tick effort is within [0, cMaxEffort] and oxy and
\* progress are within [0, 1].
C1_TickKeepsRanges ==
  op = "tick" =>
    /\ 0 <= mEffort /\ mEffort <= cMaxEffort
    /\ 0 <= mOxy /\ mOxy <= Scale
    /\ 0 <= mProgress /\ mProgress <= Scale

\* C2 as stated: a completing tick adds exactly 1 to score, sets cooldown to
\* cCooldownValue and leaves brickFall at 0.
C2_CompletionLeavesBrickAtZero ==
  [][CompletingStep =>
       /\ mSave'.score = mSave.score + 1
       /\ mCooldown' = cCooldownValue
       /\ mBrickFall' = 0]_vars

\* C2 amended: a completing tick adds exactly 1 to score, sets cooldown to
\* cCooldownValue and restarts the fall from 0, so that the same tick's fall
\* step leaves brickFall at brick.fallSpeed * delta.
C2_Completion ==
  [][CompletingStep =>
       /\ mSave'.score = mSave.score + 1
       /\ mCooldown' = cCooldownValue
       /\ mBrickFall' = Mul(mConfig.brick.fallSpeed, lastDelta')]_vars

\* a cycle completed after a purchase had been made
C2_Witness ==
  /\ op = "tick" /\ outcome = "complete"
  /\ mSave.lubeTier = 1
  /\ mSave.score = 1
  /\ mCooldown = cCooldownValue
  /\ mBrickFall = Mul(mConfig.brick.fallSpeed, lastDelta)

\* C3: an acquire that ends in InsufficientFunds or AlreadyOwned leaves score,
\* the tiers, prestige and the dirty flag (and the persisted records) as they
\* were, so repeating it changes nothing either.
C3_RejectionKeepsSavefile ==
  [][(AcquireStep /\ outcome' \in {"InsufficientFunds", "AlreadyOwned"}) =>
       /\ mSave' = mSave
       /\ disk' = disk]_vars

\* score 20, price 30: insufficient funds
C3_Witness ==
  /\ op = "store" /\ outcome = "InsufficientFunds"
  /\ lastItem # 0
  /\ mSave.score = 20
  /\ ConfigStore[lastItem].price = 30

\* C4: a successful acquire of a tiered item lowers score by exactly the price,
\* raises the tier of the item's kind to max(tier, argument), leaves the other
\* tiers and prestige alone and leaves dirty set.
C4_PurchaseEffect ==
  [][(AcquireStep /\ outcome' = "Purchased"
        /\ ConfigStore[lastItem'].kind # EndGame) =>
       LET item == ConfigStore[lastItem'] IN
       /\ mSave'.score = mSave.score - item.price
       /\ TierOf(mSave', item.kind) = Max(TierOf(mSave, item.kind), item.argument)
       /\ \A k \in {Lube, Gravity, Oxy} \ {item.kind} :
            TierOf(mSave', k) = TierOf(mSave, k)
       /\ mSave'.prestige = mSave.prestige
       /\ mSave'.dirty]_vars

\* score 50, price 30 gives score 20
C4_Witness ==
  /\ op = "store" /\ outcome = "Purchased"
  /\ lastItem # 0
  /\ ConfigStore[lastItem].price = 30
  /\ mSave.score = 20
  /\ TierOf(mSave, ConfigStore[lastItem].kind) = ConfigStore[lastItem].argument
  /\ mSave.dirty

\* C5: no acquire lowers a tier, and an acquire of the tiered item that was
\* bought in the step before leaves the tier at max(previous tier, argument).
C5_TiersMonotonic ==
  [][AcquireStep =>
       /\ \A k \in {Lube, Gravity, Oxy} : TierOf(mSave', k) >= TierOf(mSave, k)
       /\ (op = "store" /\ outcome = "Purchased" /\ lastItem = lastItem'
             /\ ConfigStore[lastItem'].kind # EndGame) =>
            /\ outcome' = "AlreadyOwned"
            /\ Tiers(mSave') = Tiers(mSave)
            /\ TierOf(mSave', ConfigStore[lastItem'].kind) >=
                 ConfigStore[lastItem'].argument]_vars

\* lube2 asked for again once lubeTier is 2: the tier stays 2
C5_Witness ==
  /\ op = "store" /\ outcome = "AlreadyOwned"
  /\ lastItem # 0
  /\ ConfigStore[lastItem].kind = Lube
  /\ ConfigStore[lastItem].argument = 2
  /\ mSave.lubeTier = 2

\* the item is a tiered one whose tier is held, its required prestige met
OwnedTier(save, item) ==
  /\ item.kind \in {Lube, Gravity, Oxy}
  /\ TierOf(save, item.kind) >= item.argument
  /\ save.prestige >= item.prestige

\* C6: acquire reports AlreadyOwned for an owned tiered item whatever the
\* score, InsufficientFunds for an item not owned with score < price, and
\* Purchased in every other case.
C6_OutcomeOrder ==
  [][AcquireStep =>
       LET item == ConfigStore[lastItem'] IN
       outcome' = IF OwnedTier(mSave, item) THEN "AlreadyOwned"
                  ELSE IF mSave.score < item.price THEN "InsufficientFunds"
                  ELSE "Purchased"]_vars

\* already owned although the score is below the price
C6_Witness ==
  /\ op = "store" /\ outcome = "AlreadyOwned"
  /\ lastItem # 0
  /\ mSave.score < ConfigStore[lastItem].price

\* C7: a terminal transition writes, in the same step, the record it loaded
\* with prestige raised by exactly 1 and every other field at its default,
\* and no other step changes that record: n transitions from prestige p
\* give p + n.
C7_TerminalTransition ==
  [][IF op' = "endinit"
     THEN /\ writes' = 1
          /\ disk'.savejson.prestige = disk.savejson.prestige + 1
          /\ disk'.savejson = Persisted([SavefileDefault EXCEPT
                                           !.prestige = disk.savejson.prestige + 1])
          /\ Persisted(mEndSave') = disk'.savejson
     ELSE disk'.savejson = disk.savejson]_vars

\* the second consecutive terminal transition has happened: from 0 to 2
C7_Witness ==
  /\ op = "endinit"
  /\ terminals = 2
  /\ disk.savejson.prestige = 2
  /\ disk.savejson.score = 0
  /\ disk.progress.prestige = 0

\* C8: the record the simulation screen loads when it is entered after a
\* terminal transition is the one the end screen wrote: prestige raised,
\* score and tiers at their defaults.
C8_ResetSurvives ==
  (op = "enter" /\ terminals > 0) =>
    /\ mSave.prestige = disk.savejson.prestige
    /\ mSave.score = 0
    /\ Tiers(mSave) = << 0, 0, 0 >>

\* C9: a tick that starts with dirty set issues the flush write and leaves
\* dirty clear and the "progress" record equal to the Savefile; a tick that
\* starts with dirty clear and completes no cycle issues no write.  (The
\* only other write of a tick is the one of a completion.)
C9_DirtyFlush ==
  [][op' = "tick" =>
       LET completion == IF outcome' = "complete" THEN 1 ELSE 0 IN
       /\ mSave.dirty =>
            /\ writes' = 1 + completion
            /\ ~mSave'.dirty
            /\ disk'.progress = Persisted(mSave')
       /\ ~mSave.dirty =>
            /\ writes' = completion
            /\ completion = 0 => disk' = disk]_vars

\* a purchase has been flushed by a tick that completed nothing
C9_Witness ==
  /\ op = "tick" /\ outcome # "complete"
  /\ writes = 1
  /\ ~mSave.dirty
  /\ mSave.lubeTier = 1
  /\ disk.progress = Persisted(mSave)

\* C10: a click raises effort only if outOfBreath is false, cooldown <= 0,
\* effort < max and oxy >= oxy.min, and then by one cEffortIncrement clamped
\* to max; if one of the four fails the click changes no simulation state.
C10_ClickEffort ==
  [][op' = "click" =>
       /\ mEffort' # mEffort =>
            /\ ClickAccepted(mOuttaBreath, mCooldown, mEffort, mOxy)
            /\ mEffort' = Min(mEffort + cEffortIncrement, cMaxEffort)
       /\ ~ClickAccepted(mOuttaBreath, mCooldown, mEffort, mOxy) =>
            UNCHANGED simVars]_vars

\* C11: while the simulation screen is up, gravity and progressDecay change
\* only on the tick that resets a progress cycle, never on another tick, a
\* click or a purchase; at screen entry and on the reset tick they are
\* gravity.base + gravityTier * gravity.upgrade and
\* lube.base - lubeTier * lube.upgrade for the tiers held at that moment.
C11_RecalculatedAtResetOnly ==
  [][(screen' = "shit") =>
       LET recalculated == op' = "enter" \/ (op' = "tick" /\ outcome' = "reset") IN
       /\ ~recalculated =>
            /\ mGravity' = mGravity
            /\ mProgressDecay' = mProgressDecay
       /\ recalculated =>
            /\ mGravity' = mConfig.gravity.base
                              + mSave'.gravityTier * mConfig.gravity.upgrade
            /\ mProgressDecay' = mConfig.lube.base
                                    - mSave'.lubeTier * mConfig.lube.upgrade]_vars

\* a reset tick that brought in a lube tier bought since the screen was entered
C11_Witness ==
  /\ op = "tick" /\ outcome = "reset"
  /\ mSave.lubeTier = 1
  /\ disk.progress.lubeTier = 1
  /\ mProgressDecay = mConfig.lube.base - mConfig.lube.upgrade
  /\ mProgressDecay # mConfig.lube.base

\* the display row a store click was made on (acquire moves it from
\* mItemHover to mPurchaseFloat when a tiered item is bought)
ClickedRow ==
  IF outcome = "Purchased" /\ ConfigStore[lastItem].kind # EndGame
  THEN mPurchaseFloat ELSE mItemHover

\* C12: acquire never runs on an item whose required prestige exceeds the
\* prestige held, and the item it runs on after a click on display row k is
\* the (k+1)-th catalog entry, rows counted from 0, among those whose required
\* prestige is met.
C12_PrestigeFilter ==
  [][AcquireStep =>
       /\ ConfigStore[lastItem'].prestige <= mSave.prestige
       /\ Cardinality({ j \in 1..lastItem' :
                          ConfigStore[j].prestige <= mSave.prestige })
            = ClickedRow' + 1]_vars

\* at prestige 0 the second entry is hidden: row 1 selects the third entry
C12_Witness ==
  /\ op = "store" /\ lastItem = 3
  /\ mItemHover = 1
  /\ mSave.prestige = 0
  /\ ConfigStore[2].prestige > mSave.prestige

\* C13 as stated: with oxy.drain > oxy.regen, a tick with dt > 0 that starts
\* with effort = 1 strictly decreases oxy.
C13_FullEffortDrains ==
  [][(op' = "tick" /\ lastDelta' > 0 /\ mEffort = cMaxEffort
        /\ mConfig.oxy.drain > mConfig.oxy.regen) =>
       mOxy' < mOxy]_vars

\* C13 amended: the drain of a tick uses the effort left by the same tick's
\* decay step; when that effort times oxy.drain exceeds oxy.regen, a tick with
\* dt > 0 past the fade-in strictly decreases oxy, or leaves it at 0 when it
\* was 0 already.
C13_DrainDominance ==
  [][(op' = "tick" /\ lastDelta' > 0 /\ outcome' # "fade"
        /\ Mul(mEffort', mConfig.oxy.drain) > mConfig.oxy.regen) =>
       (mOxy' < mOxy \/ (mOxy = 0 /\ mOxy' = 0))]_vars

\* effort 1 decayed to 0.25 by the tick, which drained more than it regenerated
C13_Witness ==
  /\ op = "tick" /\ lastDelta > 0 /\ outcome # "fade"
  /\ mEffort > 0 /\ mEffort + Mul(cEffortDecay, lastDelta) = cMaxEffort
  /\ Mul(mEffort, mConfig.oxy.drain) > mConfig.oxy.regen
  /\ 0 < mOxy /\ mOxy < Scale

\* an acquire that leaves a notification (every one but the purchase of an
\* EndGame item, which leaves the screen)
NotifyingStep ==
  /\ AcquireStep
  /\ ~(outcome' = "Purchased" /\ ConfigStore[lastItem'].kind = EndGame)

\* C14: a notification is shown exactly while mPurchaseFloat is not
\* cNoPurchaseFloat.  Every notifying acquire shows one and restarts its timer
\* from 0; a store tick adds its delta to the timer of a shown notification and
\* removes it exactly when the timer has reached cPurchaseFloatLifetime; only
\* an acquire brings a notification up, so none is shown with a timer at or
\* past the lifetime.
C14_FloatExpires ==
  [][/\ NotifyingStep =>
          /\ mPurchaseFloat' # cNoPurchaseFloat
          /\ mPurchaseFloatTimer' = 0
     /\ (op' = "tick" /\ storeOpen /\ mPurchaseFloat # cNoPurchaseFloat) =>
          /\ mPurchaseFloatTimer' = mPurchaseFloatTimer + lastDelta'
          /\ mPurchaseFloat' =
               IF mPurchaseFloatTimer + lastDelta' >= cPurchaseFloatLifetime
               THEN cNoPurchaseFloat ELSE mPurchaseFloat
     /\ (mPurchaseFloat = cNoPurchaseFloat /\ mPurchaseFloat' # cNoPurchaseFloat) =>
          NotifyingStep
     /\ mPurchaseFloat' # cNoPurchaseFloat =>
          mPurchaseFloatTimer' < cPurchaseFloatLifetime]_vars

\* a notification has been removed by a tick, its timer at the lifetime
C14_Witness ==
  /\ op = "tick" /\ storeOpen /\ lastDelta > 0
  /\ mPurchaseFloat = cNoPurchaseFloat
  /\ mPurchaseFloatTimer = cPurchaseFloatLifetime

\* acquire ran on a tiered item whose argument is not above the tier held
NoGainStep ==
  /\ AcquireStep
  /\ ConfigStore[lastItem'].kind \in {Lube, Gravity, Oxy}
  /\ ConfigStore[lastItem'].argument <=
       TierOf(mSave, ConfigStore[lastItem'].kind)

\* C15 as stated: an acquire of a tiered item whose argument is not greater
\* than the tier held deducts the price from score and leaves the tier as it
\* was.
C15_ChargedForNoGain ==
  [][NoGainStep =>
       /\ mSave'.score = mSave.score - ConfigStore[lastItem'].price
       /\ Tiers(mSave') = Tiers(mSave)]_vars

\* C15 amended: an acquire of a tiered item whose argument is not greater than
\* the tier held is rejected as AlreadyOwned: nothing is deducted and the tier
\* stays as it was.
C15_NoGainRejected ==
  [][NoGainStep =>
       /\ outcome' = "AlreadyOwned"
       /\ mSave'.score = mSave.score
       /\ Tiers(mSave') = Tiers(mSave)
       /\ mPurchaseFloat' = cAlreadyOwnedFloat]_vars

\* lube1 asked for while lubeTier is 2, with the score to pay for it
C15_Witness ==
  /\ op = "store" /\ outcome = "AlreadyOwned"
  /\ lastItem # 0
  /\ ConfigStore[lastItem].kind = Lube
  /\ ConfigStore[lastItem].argument < mSave.lubeTier
  /\ mSave.score >= ConfigStore[lastItem].price
  /\ ConfigStore[lastItem].price > 0

\* C18: acquire on an EndGame item never reports AlreadyOwned; it purchases
\* exactly when score >= price, and the purchase requests the end state and
\* changes no tier; a rejected attempt leaves the screen as it is.
C18_EndGamePurchase ==
  [][(AcquireStep /\ ConfigStore[lastItem'].kind = EndGame) =>
       /\ outcome' # "AlreadyOwned"
       /\ outcome' = "Purchased" <=> mSave.score >= ConfigStore[lastItem'].price
       /\ outcome' = "Purchased" =>
            /\ screen' = "swap"
            /\ Tiers(mSave') = Tiers(mSave)
       /\ outcome' # "Purchased" => screen' = screen]_vars

\* the end state has been requested by a purchase made at prestige 1 with
\* tiers held
C18_Witness ==
  /\ screen = "swap"
  /\ op = "store" /\ outcome = "Purchased"
  /\ ConfigStore[lastItem].kind = EndGame
  /\ mSave.prestige = 1
  /\ mSave.lubeTier > 0

\* C19: the notification is raised by the end screen's tick and by nothing
\* else, on the tick at which the countdown expires, exactly if the prestige
\* the end screen wrote is 1; that is the case on the first terminal
\* transition from prestige 0 only.
C19_NotificationOnce ==
  /\ op # "endtick" => "notification" \notin cues
  /\ op = "endtick" =>
       /\ "notification" \in cues <=>
            (outcome = "finished" /\ disk.savejson.prestige = 1)
       /\ "notification" \in cues => terminals = 1

\* the notification has been raised after the first terminal transition
C19_Witness ==
  /\ op = "endtick" /\ outcome = "finished"
  /\ "notification" \in cues
  /\ terminals = 1

\* ----------------------------------------------------------------- C16
\* the keys every section has to hold, each as a number
RequiredKeys ==
  [ lube    |-> {"base", "upgrade", "maxTier"},
    gravity |-> {"base", "upgrade", "threshold", "maxTier"},
    oxy     |-> {"regen", "drain", "min"},
    toilet  |-> {"xPos", "yPos", "size"},
    brick   |-> {"xPos", "startY", "endY", "fallSpeed", "size"} ]

\* an element's discriminant is the first of lubeTier, gravityTier and endGame
\* it holds; a tier is a number, endGame is of no particular type
DiscriminantWellTyped(e) ==
  IF e.lubeTier.type # "absent" THEN e.lubeTier.type = "number"
  ELSE IF e.gravityTier.type # "absent" THEN e.gravityTier.type = "number"
  ELSE e.endGame.type # "absent"

ElementWellFormed(e) ==
  /\ e.type = "object"
  /\ e.name.type = "string"
  /\ e.desc.type = "string"
  /\ e.price.type = "number"
  /\ e.icon.type = "number"
  /\ DiscriminantWellTyped(e)

DocumentWellFormed(file) ==
  /\ file.form = "object"
  /\ \A s \in DOMAIN RequiredKeys :
        /\ file.root[s].type = "object"
        /\ \A k \in RequiredKeys[s] : file.root[s].fields[k].type = "number"
  /\ file.root.store.type = "array"
  /\ \A i \in 1..Len(file.root.store.items) :
        ElementWellFormed(file.root.store.items[i])

\* C16: Config::load fails, with an error dialog, whenever a required key of
\* lube, gravity, oxy, toilet or brick, or a store element's name, desc, price,
\* icon or discriminant, is absent or of the wrong JSON type, and succeeds
\* only when every one of them is present and well-typed.
C16_LoadChecksEveryKey ==
  op = "load" =>
    /\ cfgResult.ok <=> DocumentWellFormed(cfgFile)
    /\ ~cfgResult.ok <=> "dialog" \in cues
    /\ cfgResult.ok <=> cfgResult.error = NoError

\* a document whose only fault is the key checked last (brick.size, held as a
\* string) has been refused
C16_Witness ==
  /\ op = "load"
  /\ ~cfgResult.ok
  /\ cfgFile = [form |-> "object",
                root |-> [GoodRoot EXCEPT !.brick.fields.size = JString]]
  /\ cfgResult.error = LoadError("brick", "size", 0, "type")

\* ----------------------------------------------------------------- C17
\* the discriminants a store element defines
Discriminants(e) ==
  { k \in {"lubeTier", "gravityTier", "endGame"} : e[k].type # "absent" }

KindOf(k) ==
  IF k = "lubeTier" THEN Lube ELSE IF k = "gravityTier" THEN Gravity ELSE EndGame

\* C17: after a successful load every store entry defines exactly one of
\* lubeTier, gravityTier and endGame and has the kind that goes with it, never
\* None; a document with an element defining none or several is refused.
C17_ExactlyOneDiscriminant ==
  (op = "load" /\ cfgResult.ok) =>
    /\ Len(cfgResult.out.store) = Len(cfgFile.root.store.items)
    /\ \A i \in 1..Len(cfgFile.root.store.items) :
         LET e == cfgFile.root.store.items[i]
             item == cfgResult.out.store[i]
         IN /\ Cardinality(Discriminants(e)) = 1
            /\ item.kind # None
            /\ \A k \in Discriminants(e) : item.kind = KindOf(k)

\* ----------------------------------------------------------------- C20
\* what a simulation tick of length d makes of oxygen, given the decayed effort
OxyAfterTick(oxy, effort, d) ==
  LET o2 == OxyAfterDrain(OxyAfterRegen(oxy, d), effort, d)
  IN IF o2 <= 0 THEN 0 ELSE o2

InProgressTrigger(pos) ==
  LET t == cfgFile.root.toilet.fields
  IN /\ pos[1] >= t.xPos.num /\ pos[1] <= t.xPos.num + t.size.num
     /\ pos[2] >= t.yPos.num /\ pos[2] <= t.yPos.num + t.size.num

\* C21: a click on the simulation screen that lies neither inside the
\* progress-trigger region nor inside the store-icon hit region is ignored:
\* effort is unchanged and the store is not opened.
C21_ClickOutsideRegionsIgnored ==
  [][ \A pos \in ClickPositions :
        (~updateHoveringStoreIcon(pos) /\ ~InProgressTrigger(pos) /\ ShitClickAt(pos))
          => (mEffort' = mEffort /\ storeOpen' = storeOpen) ]_vars

C23_OncePerCycle ==
  [][ /\ (op' = "tick" /\ mSave'.score # mSave.score) =>
           /\ mProgress < Scale /\ mProgress' >= Scale
           /\ mSave'.score = mSave.score + 1
      /\ (op' = "tick" /\ mProgress >= Scale) =>
           /\ mSave'.score = mSave.score
           /\ outcome' # "complete"
           /\ IF outcome' = "reset" THEN mProgress' = 0
              ELSE mProgress' = mProgress
      /\ (op' = "click" /\ mProgress >= Scale) => mProgress' = mProgress
      /\ (op' = "click" /\ mCooldown > 0) =>
           (mEffort' = mEffort /\ outcome' # "effort")
    ]_vars

\* a click during the cooldown of the first completed cycle has been rejected
C23_Witness ==
  /\ op = "click"
  /\ outcome = "ignored"
  /\ mTimer >= cFadeInTime
  /\ mCooldown > 0
  /\ mProgress >= Scale
  /\ mSave.score = 1
  /\ ~mOuttaBreath
  /\ mEffort < cMaxEffort
  /\ mOxy >= mConfig.oxy.min

\* ----------------------------------------------------------------- C24
\* C24: after a completion the cycle reset (progress = 0, cooldown = 0,
\* brickFall = -1) happens only once ticks totalling at least cCooldownValue
\* have elapsed since the completing tick, and with frames of dt > 0 occurring
\* again and again it eventually happens.
C24_ResetAfterCooldown ==
  /\ [][ (op' = "tick" /\ outcome' = "complete") =>
            (mCooldown' = cCooldownValue /\ sinceCompletion' = 0) ]_vars
  /\ [][ (op' = "tick" /\ outcome' = "reset") =>
            /\ mProgress >= Scale
            /\ sinceCompletion >= cCooldownValue
            /\ mProgress' = 0
            /\ mCooldown' = 0
            /\ mBrickFall' = cBrickFallInactive ]_vars
  /\ [][ (mProgress >= Scale /\ mProgress' < Scale) =>
            (op' = "tick" /\ outcome' = "reset") ]_vars
  /\ (op = "tick" /\ outcome = "complete")
       ~> ( /\ op = "tick" /\ outcome = "reset"
            /\ mProgress = 0 /\ mCooldown = 0
            /\ mBrickFall = cBrickFallInactive )

\* the first completed cycle has been reset, a cooldown's worth of frames after
\* its completion
C24_Witness ==
  /\ op = "tick"
  /\ outcome = "reset"
  /\ sinceCompletion >= cCooldownValue
  /\ mProgress = 0
  /\ mCooldown = 0
  /\ mBrickFall = cBrickFallInactive
  /\ mSave.score = 1

\* ----------------------------------------------------------------- C25
\* C25: every score increment caused by a completion is persisted: the
\* completing tick issues a write carrying the incremented score (so nothing is
\* left for the dirty flag to flush at the start of the next tick), and a tick
\* raises the score in no other way.
C25_CompletionPersisted ==
  [][ /\ (op' = "tick" /\ outcome' = "complete") =>
           /\ mSave'.score = mSave.score + 1
           /\ writes' >= 1
           /\ disk'.progress.score = mSave'.score
           /\ ~mSave'.dirty
      /\ (op' = "tick" /\ mSave'.score # mSave.score) => outcome' = "complete"
    ]_vars

\* the second completion has been written out
C25_Witness ==
  /\ op = "tick"
  /\ outcome = "complete"
  /\ "pop" \in cues
  /\ writes >= 1
  /\ mSave.score = 2
  /\ disk.progress.score = 2
  /\ ~mSave.dirty

\* ----------------------------------------------------------------- C26
\* C26 as stated: the out-of-breath cue is signalled exactly on the ticks where
\* outOfBreath changes from false to true, and never on a tick where
\* outOfBreath was already true.
C26_CueOnlyOnFlagChange ==
  [][ ("breath" \in cues') <=>
        (op' = "tick" /\ ~mOuttaBreath /\ mOuttaBreath') ]_vars

\* C26: the out-of-breath cue is signalled exactly on the ticks that deplete
\* the oxygen with outOfBreath clear after the tick's own recovery step: on
\* every change from false to true, and on a tick that begins with outOfBreath
\* set and oxy >= 1 (the flag is cleared, a new episode begins) and depletes
\* again; it is never signalled on a tick that begins with outOfBreath set and
\* oxy < 1, even if oxy hits 0 again.
C26_CuePerDepletionEpisode ==
  [][ /\ ("breath" \in cues') <=>
           ( /\ op' = "tick"
             /\ mOuttaBreath'
             /\ mOxy' = 0
             /\ (~mOuttaBreath \/ mOxy >= Scale) )
      /\ (mOuttaBreath /\ mOxy < Scale) => "breath" \notin cues'
    ]_vars

\* a frame has emptied the tank again, effort still draining, with outOfBreath
\* already set: no cue
C26_Witness ==
  /\ op = "tick"
  /\ lastDelta > 0
  /\ mTimer >= cFadeInTime
  /\ mOuttaBreath
  /\ mOxy = 0
  /\ mEffort > 0
  /\ "breath" \notin cues

\* ----------------------------------------------------------------- C27
\* the water surface is reached wherever it stands
BelowWater(fall) == \A wy \in WaterYs : fall >= wy

\* C27: during every fall animation (from a completion to the next cycle
\* reset) the splash cue is played exactly once, on the first tick at which
\* brickFall has reached the water surface, also in the first fall after the
\* simulation screen is entered again following a terminal transition: never
\* twice in a fall, never before the surface is reached, at the latest on the
\* tick that takes brickFall below every position of the surface, and once by
\* the time of the reset.
C27_OneSplashPerFall ==
  /\ [](fallSplashes <= 1)
  /\ [][ op' = "tick" =>
            /\ "splash" \in cues' =>
                 /\ mBrickFall' >= 0
                 /\ \E wy \in WaterYs : mBrickFall' >= wy
            /\ (mBrickFall' >= 0 /\ BelowWater(mBrickFall')) =>
                 fallSplashes' = 1
            /\ outcome' = "reset" => fallSplashes = 1 ]_vars

\* ----------------------------------------------------------------- C28
\* C28: outOfBreath has hysteresis: once set it stays set, and every effort
\* click is rejected, until a tick begins its oxygen step with oxy >= 1; a
\* tick that begins with oxy < 1 leaves it set and a click never clears it, so
\* partial recovery (0 < oxy < 1) never re-enables clicking.
C28_BreathHysteresis ==
  [][ /\ (mOuttaBreath /\ ~mOuttaBreath') =>
           (op' = "tick" /\ mTimer' >= cFadeInTime /\ mOxy >= Scale)
      /\ (mOuttaBreath /\ op' = "tick" /\ mOxy < Scale) => mOuttaBreath'
      /\ (mOuttaBreath /\ op' = "click") =>
           /\ mEffort' = mEffort
           /\ outcome' # "effort"
           /\ mOuttaBreath'
    ]_vars

\* a click has been rejected with oxygen partly recovered, above oxy.min, and
\* nothing but outOfBreath standing against it
C28_Witness ==
  /\ op = "click"
  /\ outcome = "ignored"
  /\ mTimer >= cFadeInTime
  /\ mOuttaBreath
  /\ mOxy > 0
  /\ mOxy < Scale
  /\ mOxy >= mConfig.oxy.min
  /\ mEffort < cMaxEffort
  /\ mCooldown <= 0

\* ----------------------------------------------------------------- C29
\* C29: with oxy.regen > 0 and ticks of dt > 0 occurring forever, an
\* outOfBreath state is always eventually left: while it lasts no click raises
\* effort and every such tick lowers the effort that is left, with no effort
\* left every such tick begun with oxy < 1 raises oxygen by oxy.regen * dt, and
\* in the end outOfBreath is clear and a click is accepted again.
C29_BreathRecovers ==
  /\ [](mConfig.oxy.regen > 0)
  /\ [][ mOuttaBreath =>
            /\ mEffort' <= mEffort
            /\ (op' = "tick" /\ lastDelta' > 0 /\ mEffort > 0) =>
                 mEffort' < mEffort
            /\ (op' = "tick" /\ lastDelta' > 0 /\ mEffort' = 0 /\ mOxy < Scale) =>
                 /\ mOxy' = mOxy + Mul(mConfig.oxy.regen, lastDelta')
                 /\ mOxy' > mOxy ]_vars
  /\ mOuttaBreath ~>
       ( /\ ~mOuttaBreath
         /\ ClickAccepted(mOuttaBreath, mCooldown, mEffort, mOxy) )

\* after a tick has cleared outOfBreath, with the effort gone and the tank
\* full, a click has been accepted again
C29_Witness ==
  /\ op = "click"
  /\ outcome = "effort"
  /\ breathCleared
  /\ ~mOuttaBreath
  /\ mEffort = cEffortIncrement
  /\ mOxy >= Scale
  /\ mConfig = BreathConfig

\* ----------------------------------------------------------------- C30
\* C30: starting from score >= 0, the score (a 16-bit signed integer) is never
\* negative in a state reached by completions and purchases, neither in the
\* Savefile in memory nor in the stored record.
C30_ScoreNeverNegative ==
  /\ mSave.score >= 0
  /\ disk.progress.score >= 0

====
